---- MODULE Spec2Model ----
(***************************************************************************)
(* Model of the Apache Ignite data source for Grafana                      *)
(* (src/src/module.ts, class DataSource): query(), getFields() and the     *)
(* network requests they issue through _get().                             *)
(*                                                                         *)
(* JavaScript values: an optional field is None (undefined) or Some(v).    *)
(* Strings that are inspected character by character (the SQL text) are    *)
(* sequences of one-character strings; the other strings are TLA+ strings. *)
(* A promise is a record whose kind is "pending", "rejected" or the kind   *)
(* of the value it resolved with.                                          *)
(***************************************************************************)
EXTENDS Integers, Sequences, FiniteSets, TLC

\* ------------------------------------------------------------------ bounds
MaxTargets == 2
MaxFields == 2
MaxRows == 2
MaxQuery == 4

\* ------------------------------------------------------- program constants
PAGE_SIZE == 1024
TIMESERIES == "time_series"
TABLE == "table"

None == [defined |-> FALSE]
Some(v) == [defined |-> TRUE, v |-> v]

Undefined == [kind |-> "undefined"]
Pending == [kind |-> "pending"]
Rejected == [kind |-> "rejected"]

\* ------------------------------------------------------------------ inputs
RefIds == <<"A", "B", "C", "D">>

\* An IgniteQuery without its refId (types.ts), every combination of the
\* optional fields being absent, empty or set.
CacheNames == {None, Some(""), Some("person")}
Formats == {None, Some(TIMESERIES), Some(TABLE)}
TimeColumns == {None, Some(""), Some("ts")}
Sql == <<"a", " ", "b">>
Queries == {None, Some(<<>>), Some(Sql)}

IgniteQuery(r, c, f, tc, q) ==
  [refId |-> r, cacheName |-> c, format |-> f, timeColumn |-> tc, query |-> q]

AllShapes ==
  {IgniteQuery("", c, f, tc, q) : c \in CacheNames, f \in Formats,
                                  tc \in TimeColumns, q \in Queries}

\* The shapes of the network model: a well-formed table target, a well-formed
\* time series target on another cache, and one target failing each filter.
PoolShapes ==
  { IgniteQuery("", Some("person"), Some(TABLE), None, Some(Sql)),
    IgniteQuery("", Some("city"), Some(TIMESERIES), Some("ts"), Some(Sql)),
    IgniteQuery("", Some(""), Some(TABLE), None, Some(Sql)),
    IgniteQuery("", Some("person"), Some(TIMESERIES), None, Some(Sql)),
    IgniteQuery("", Some("person"), Some(TABLE), None, None) }

SeqsUpTo(S, n) == UNION {[1..k -> S] : k \in 0..n}

\* request.targets: the panel's queries, whose refIds are distinct.
Requests(shapes, n) ==
  { [i \in 1..Len(s) |-> [s[i] EXCEPT !.refId = RefIds[i]]] : s \in SeqsUpTo(shapes, n) }

\* ------------------------------------------------------------------- state
VARIABLES
  request,    \* request.targets as the caller holds it
  pc,         \* "start", "awaitChecks", "resolved", "rejected": the state of query()'s promise
  filtered,   \* the validated targets
  requests,   \* the GET requests issued through _get(), in order
  response,   \* the promise of each cache-existence request
  results,    \* the response each execution request was answered with
  frames,     \* the promise of each execution's then-callback
  outcome,    \* what query()'s promise settled with
  metadata,   \* the argument of a getFields() call
  fields      \* what that call returned

vars == <<request, pc, filtered, requests, response, results, frames, outcome,
          metadata, fields>>

\* ------------------------------------------------------ STEP #1: validation
cloneDeep(targets) == [i \in 1..Len(targets) |-> targets[i]]

CheckCacheName(t) ==
  IF t.cacheName = None \/ t.cacheName = Some("") THEN FALSE ELSE TRUE

\* CheckTimeColumn without the look at the time column.
CheckTimeColumn_m(t) ==
  IF t.format = None THEN FALSE ELSE TRUE

CheckTimeColumn(t) ==
  IF t.format = None THEN FALSE
  ELSE IF t.format = Some(TIMESERIES)
       THEN (IF t.timeColumn = None \/ t.timeColumn = Some("") THEN FALSE ELSE TRUE)
       ELSE TRUE

CheckQuery(t) ==
  IF t.query = None \/ t.query = Some(<<>>) THEN FALSE ELSE TRUE

validTargets(targets) ==
  SelectSeq(SelectSeq(SelectSeq(cloneDeep(targets), CheckCacheName), CheckTimeColumn),
            CheckQuery)

\* --------------------------------------------------------- request building
\* encodeURIComponent on the characters of the model's alphabet: letters and
\* digits are unreserved, the others become the percent-escape of their byte.
\* encodeChar leaving the plus sign as it is.
encodeChar_m(c) ==
  CASE c = " " -> <<"%", "2", "0">>
    [] c = "%" -> <<"%", "2", "5">>
    [] OTHER -> <<c>>

encodeChar(c) ==
  CASE c = " " -> <<"%", "2", "0">>
    [] c = "+" -> <<"%", "2", "B">>
    [] c = "%" -> <<"%", "2", "5">>
    [] OTHER -> <<c>>

RECURSIVE encodeURIComponent(_)
encodeURIComponent(s) ==
  IF s = <<>> THEN <<>> ELSE encodeChar(Head(s)) \o encodeURIComponent(Tail(s))

\* String.prototype.replace with a string pattern: the first occurrence only.
replace(s, pat, by) ==
  LET hits == {i \in 1..(Len(s) - Len(pat) + 1) : SubSeq(s, i, i + Len(pat) - 1) = pat}
  IN IF hits = {} THEN s
     ELSE LET i == CHOOSE h \in hits : \A g \in hits : h <= g
          IN SubSeq(s, 1, i - 1) \o by \o SubSeq(s, i + Len(pat), Len(s))

\* The cache names of the validated targets, one entry per target.
RECURSIVE distinct(_)
distinct(cs) ==
  IF cs = <<>> THEN <<>>
  ELSE LET rest == distinct(SubSeq(cs, 1, Len(cs) - 1))
           last == cs[Len(cs)]
       IN IF \E i \in 1..Len(rest) : rest[i] = last THEN rest ELSE Append(rest, last)

\* caches with each cache name kept once.
caches_m(f) == distinct([i \in 1..Len(f) |-> f[i].cacheName.v])

caches(f) == [i \in 1..Len(f) |-> f[i].cacheName.v]

sizeUrl(c) == [cmd |-> "size", cacheName |-> c]

qryfldexeUrl(t) ==
  [cmd |-> "qryfldexe", cacheName |-> t.cacheName.v, pageSize |-> PAGE_SIZE,
   qry |-> replace(encodeURIComponent(IF t.query = None THEN <<>> ELSE t.query.v),
                   <<"%", "2", "0">>, <<"+">>)]

\* ------------------------------------------------------------- frame building
\* FieldType without the case of java.lang.Short.
FieldType_m(fieldTypeName) ==
  CASE fieldTypeName = Some("java.lang.Boolean") -> "boolean"
    [] fieldTypeName \in {Some("java.lang.Byte"), Some("java.lang.Double"),
                          Some("java.lang.Float"), Some("java.lang.Integer"),
                          Some("java.lang.Long")} -> "number"
    [] fieldTypeName = Some("java.lang.Short") -> "other"
    [] OTHER -> "string"

FieldType(fieldTypeName) ==
  CASE fieldTypeName = Some("java.lang.Boolean") -> "boolean"
    [] fieldTypeName = Some("java.lang.Byte") -> "number"
    [] fieldTypeName = Some("java.lang.Double") -> "number"
    [] fieldTypeName = Some("java.lang.Float") -> "number"
    [] fieldTypeName = Some("java.lang.Integer") -> "number"
    [] fieldTypeName = Some("java.lang.Long") -> "number"
    [] fieldTypeName = Some("java.lang.Short") -> "number"
    [] fieldTypeName = Some("java.lang.String") -> "string"
    [] fieldTypeName = Some("java.sql.Date") -> "string"
    [] fieldTypeName = Some("java.sql.Time") -> "string"
    [] fieldTypeName = Some("java.sql.Timestamp") -> "string"
    [] fieldTypeName = Some("java.lang.UUID") -> "string"
    [] fieldTypeName = Some("org.apache.ignite.lang.IgniteUuid") -> "string"
    [] OTHER -> "string"

getFields(md) ==
  [i \in 1..Len(md) |-> [name |-> md[i].fieldName, type |-> FieldType(md[i].fieldTypeName)]]

MutableDataFrame(refId, flds) ==
  [kind |-> "frame", refId |-> refId, fields |-> flds, rows |-> <<>>]

appendRow(frame, row) == [frame EXCEPT !.rows = Append(@, row)]

\* forEachAppendRow walking the rows from the last to the first.
RECURSIVE forEachAppendRow_m(_, _)
forEachAppendRow_m(frame, rows) ==
  IF rows = <<>> THEN frame
  ELSE forEachAppendRow_m(appendRow(frame, rows[Len(rows)]), SubSeq(rows, 1, Len(rows) - 1))

RECURSIVE forEachAppendRow(_, _)
forEachAppendRow(frame, rows) ==
  IF rows = <<>> THEN frame
  ELSE forEachAppendRow(appendRow(frame, Head(rows)), Tail(rows))

\* The filter of line 158 on the answers of the size requests.
\* checkFailed looking at the status only.
checkFailed_m(r) == r.successStatus # 0

checkFailed(r) == r.successStatus # 0 \/ r.error # ""

\* The then-callback of one execution request.
isError(r) == r.successStatus # 0 \/ r.error # ""

\* onResult looking at the status only.
onResult_m(t, result) ==
  IF result.successStatus # 0
  THEN MutableDataFrame(t.refId, <<>>)
  ELSE forEachAppendRow(MutableDataFrame(t.refId, getFields(result.response.fieldsMetadata)),
                        result.response.items)

onResult(t, result) ==
  IF isError(result)
  THEN MutableDataFrame(t.refId, <<>>)
  ELSE forEachAppendRow(MutableDataFrame(t.refId, getFields(result.response.fieldsMetadata)),
                        result.response.items)

\* What the callback of filtered.map() returns for each target: its body
\* ends without a return statement.
promises(f) == [i \in 1..Len(f) |-> Undefined]

\* Promise.all over values that are not promises resolves with the values.
PromiseAll(ps) == ps

\* -------------------------------------------------------- the Ignite server
StatusPairs == {<<0, "">>, <<1, "">>, <<0, "err">>, <<1, "err">>}

SizeResults ==
  {[kind |-> "result", successStatus |-> sp[1], error |-> sp[2]] : sp \in StatusPairs}

MetaPool ==
  { [fieldName |-> "ID", fieldTypeName |-> Some("java.lang.Long")],
    [fieldName |-> "NAME", fieldTypeName |-> Some("java.lang.String")] }

\* Row k of a result with n columns; the cell records its row and column.
Row(k, n) == [j \in 1..n |-> 10 * k + j]
Items(n, m) == [k \in 1..m |-> Row(k, n)]

\* A payload has no row, one row or MaxRows rows.
Payloads ==
  UNION { { [fieldsMetadata |-> md, items |-> Items(Len(md), m)]
            : m \in IF Len(md) = 0 THEN {0} ELSE {0, 1, MaxRows} }
          : md \in SeqsUpTo(MetaPool, MaxFields) }

\* An error answer carries no payload or, to show that the payload is not
\* looked at, the largest one.
ErrorPayloads ==
  { [fieldsMetadata |-> <<>>, items |-> <<>>],
    [fieldsMetadata |-> [j \in 1..MaxFields |->
                          [fieldName |-> "ID", fieldTypeName |-> Some("java.lang.Long")]],
     items |-> Items(MaxFields, MaxRows)] }

ExecResult(sp, p) ==
  [kind |-> "result", successStatus |-> sp[1], error |-> sp[2], response |-> p]

ExecResults ==
  {ExecResult(<<0, "">>, p) : p \in Payloads}
    \cup {ExecResult(sp, p) : sp \in StatusPairs \ {<<0, "">>}, p \in ErrorPayloads}

NoValidTargets == "Please check your query configuration. No valid query targets found."
CacheNotFound == "At least one of the provided caches does not exist."
TransportError == "transport error"

Thrown(m) == [kind |-> "thrown", message |-> m]
Returned(d) == [kind |-> "returned", data |-> d]

\* -------------------------------------------------------------------- query()
Idle ==
  /\ pc = "start"
  /\ filtered = <<>>
  /\ requests = <<>>
  /\ response = <<>>
  /\ results = <<>>
  /\ frames = <<>>
  /\ outcome = Pending
  /\ fields = None

Init ==
  /\ request \in Requests(PoolShapes, MaxTargets)
  /\ metadata = <<>>
  /\ Idle

\* query() with the emptiness test of line 137 made on targets.
QueryNoValid_m ==
  /\ pc = "start"
  /\ Len(validTargets(request)) = 0
  /\ IF Len(request) = 0
     THEN pc' = "rejected" /\ outcome' = Thrown(NoValidTargets)
     ELSE pc' = "resolved" /\ outcome' = Returned(<<>>)
  /\ UNCHANGED <<request, filtered, requests, response, results, frames, metadata, fields>>

\* query() up to the throw of line 138.
QueryNoValid ==
  /\ pc = "start"
  /\ Len(validTargets(request)) = 0
  /\ pc' = "rejected"
  /\ outcome' = Thrown(NoValidTargets)
  /\ UNCHANGED <<request, filtered, requests, response, results, frames, metadata, fields>>

\* QueryChecks filtering request.targets itself instead of the copy.
QueryChecks_m ==
  /\ pc = "start"
  /\ Len(validTargets(request)) # 0
  /\ LET f == validTargets(request)
         cs == caches(f)
     IN /\ filtered' = f
        /\ request' = f
        /\ requests' = requests \o [i \in 1..Len(cs) |-> sizeUrl(cs[i])]
        /\ response' = [i \in 1..Len(cs) |-> Pending]
  /\ pc' = "awaitChecks"
  /\ UNCHANGED <<results, frames, outcome, metadata, fields>>

\* query() up to the await of line 151: one size request per entry of caches.
QueryChecks ==
  /\ pc = "start"
  /\ Len(validTargets(request)) # 0
  /\ LET f == validTargets(request)
         cs == caches(f)
     IN /\ filtered' = f
        /\ requests' = requests \o [i \in 1..Len(cs) |-> sizeUrl(cs[i])]
        /\ response' = [i \in 1..Len(cs) |-> Pending]
  /\ pc' = "awaitChecks"
  /\ UNCHANGED <<request, results, frames, outcome, metadata, fields>>

Joined(resp) == \A i \in 1..Len(resp) : resp[i] # Pending

\* A size request is answered while query() is not, or no longer, able to go on.
CheckResolve(i, r) ==
  /\ i \in 1..Len(response)
  /\ response[i] = Pending
  /\ LET resp == [response EXCEPT ![i] = r]
     IN /\ pc # "awaitChecks" \/ ~Joined(resp)
        /\ response' = resp
  /\ UNCHANGED <<request, pc, filtered, requests, results, frames, outcome, metadata, fields>>

\* The last size request is answered and one of the answers is an error:
\* lines 157-161.
ChecksFail(i, r) ==
  /\ pc = "awaitChecks"
  /\ i \in 1..Len(response)
  /\ response[i] = Pending
  /\ LET resp == [response EXCEPT ![i] = r]
         errors == SelectSeq(resp, checkFailed)
     IN /\ Joined(resp)
        /\ Len(errors) # 0
        /\ response' = resp
  /\ pc' = "rejected"
  /\ outcome' = Thrown(CacheNotFound)
  /\ UNCHANGED <<request, filtered, requests, results, frames, metadata, fields>>

\* ChecksPass going on with the first good answer instead of all answers.
ChecksPass_m(i, r) ==
  /\ pc = "awaitChecks"
  /\ i \in 1..Len(response)
  /\ response[i] = Pending
  /\ ~checkFailed(r)
  /\ response' = [response EXCEPT ![i] = r]
  /\ requests' = requests \o [k \in 1..Len(filtered) |-> qryfldexeUrl(filtered[k])]
  /\ results' = [k \in 1..Len(filtered) |-> Pending]
  /\ frames' = [k \in 1..Len(filtered) |-> Pending]
  /\ pc' = "resolved"
  /\ outcome' = Returned(PromiseAll(promises(filtered)))
  /\ UNCHANGED <<request, filtered, metadata, fields>>

\* The last size request is answered and no answer is an error: lines 157-215.
ChecksPass(i, r) ==
  /\ pc = "awaitChecks"
  /\ i \in 1..Len(response)
  /\ response[i] = Pending
  /\ LET resp == [response EXCEPT ![i] = r]
         errors == SelectSeq(resp, checkFailed)
     IN /\ Joined(resp)
        /\ Len(errors) = 0
        /\ response' = resp
  /\ requests' = requests \o [k \in 1..Len(filtered) |-> qryfldexeUrl(filtered[k])]
  /\ results' = [k \in 1..Len(filtered) |-> Pending]
  /\ frames' = [k \in 1..Len(filtered) |-> Pending]
  /\ pc' = "resolved"
  /\ outcome' = Returned(PromiseAll(promises(filtered)))
  /\ UNCHANGED <<request, filtered, metadata, fields>>

\* A size request fails in transport: Promise.all rejects with the first
\* rejection and the await of line 151 throws it.
CheckReject(i) ==
  /\ i \in 1..Len(response)
  /\ response[i] = Pending
  /\ response' = [response EXCEPT ![i] = Rejected]
  /\ IF pc = "awaitChecks"
     THEN pc' = "rejected" /\ outcome' = Thrown(TransportError)
     ELSE UNCHANGED <<pc, outcome>>
  /\ UNCHANGED <<request, filtered, requests, results, frames, metadata, fields>>

\* ExecResolve with one frame shared by the callbacks: an error answer
\* empties the frames that were already built.
ExecResolve_m(i, r) ==
  /\ i \in 1..Len(frames)
  /\ frames[i] = Pending
  /\ results' = [results EXCEPT ![i] = r]
  /\ frames' = [k \in 1..Len(frames) |->
                 IF k = i THEN onResult(filtered[i], r)
                 ELSE IF isError(r) /\ frames[k].kind = "frame"
                      THEN MutableDataFrame(filtered[k].refId, <<>>)
                      ELSE frames[k]]
  /\ UNCHANGED <<request, pc, filtered, requests, response, outcome, metadata, fields>>

\* An execution request is answered: the then-callback of lines 182-212.
ExecResolve(i, r) ==
  /\ i \in 1..Len(frames)
  /\ frames[i] = Pending
  /\ results' = [results EXCEPT ![i] = r]
  /\ frames' = [frames EXCEPT ![i] = onResult(filtered[i], r)]
  /\ UNCHANGED <<request, pc, filtered, requests, response, outcome, metadata, fields>>

\* ExecReject issuing the failed request once more.
ExecReject_m(i) ==
  /\ i \in 1..Len(frames)
  /\ frames[i] = Pending
  /\ requests' = Append(requests, qryfldexeUrl(filtered[i]))
  /\ UNCHANGED <<request, pc, filtered, response, results, frames, outcome, metadata, fields>>

\* An execution request fails in transport: the then-callback does not run.
ExecReject(i) ==
  /\ i \in 1..Len(frames)
  /\ frames[i] = Pending
  /\ results' = [results EXCEPT ![i] = Rejected]
  /\ frames' = [frames EXCEPT ![i] = Rejected]
  /\ UNCHANGED <<request, pc, filtered, requests, response, outcome, metadata, fields>>

Next ==
  \/ QueryNoValid
  \/ QueryChecks
  \/ \E i \in 1..MaxTargets, r \in SizeResults : CheckResolve(i, r)
  \/ \E i \in 1..MaxTargets, r \in SizeResults : ChecksFail(i, r)
  \/ \E i \in 1..MaxTargets, r \in SizeResults : ChecksPass(i, r)
  \/ \E i \in 1..MaxTargets : CheckReject(i)
  \/ \E i \in 1..MaxTargets, r \in ExecResults : ExecResolve(i, r)
  \/ \E i \in 1..MaxTargets : ExecReject(i)

Spec == Init /\ [][Next]_vars

\* ------------------------------------------- validation over every target shape
InitValidate ==
  /\ request \in Requests(AllShapes, MaxTargets)
  /\ metadata = <<>>
  /\ Idle

NextValidate == QueryNoValid \/ QueryChecks

SpecValidate == InitValidate /\ [][NextValidate]_vars

\* ------------------------------------------------ getFields over every type tag
TypeTags ==
  { Some("java.lang.Boolean"), Some("java.lang.Byte"), Some("java.lang.Double"),
    Some("java.lang.Float"), Some("java.lang.Integer"), Some("java.lang.Long"),
    Some("java.lang.Short"), Some("java.lang.String"), Some("java.sql.Date"),
    Some("java.sql.Time"), Some("java.sql.Timestamp"), Some("java.lang.UUID"),
    Some("org.apache.ignite.lang.IgniteUuid"), Some("java.math.BigDecimal"), None }

FieldsMetadata ==
  {[fieldName |-> n, fieldTypeName |-> tag] : n \in {"ID", "NAME"}, tag \in TypeTags}

InitFields ==
  /\ request = <<>>
  /\ metadata \in SeqsUpTo(FieldsMetadata, MaxFields)
  /\ Idle

CallGetFields ==
  /\ fields = None
  /\ fields' = Some(getFields(metadata))
  /\ UNCHANGED <<request, pc, filtered, requests, response, results, frames, outcome,
                 metadata>>

NextFields == CallGetFields

SpecFields == InitFields /\ [][NextFields]_vars

\* ------------------------------------------------- the query text on the wire
\* SQL texts over a letter, the space, the plus and percent signs and the
\* two digits of the escape of the space.
Alphabet == {"a", " ", "+", "%", "2", "0"}

SqlTexts == SeqsUpTo(Alphabet, MaxQuery) \ {<<>>}

InitEncode ==
  /\ request \in {<<IgniteQuery("A", Some("person"), Some(TABLE), None, Some(q))>>
                    : q \in SqlTexts}
  /\ metadata = <<>>
  /\ Idle

NextEncode ==
  \/ QueryChecks
  \/ \E r \in SizeResults : ChecksPass(1, r)

SpecEncode == InitEncode /\ [][NextEncode]_vars

\* ------------------------------------------------------------ testDatasource()
JsNull == [kind |-> "null"]
JsString(s) == [kind |-> "string", v |-> s]
JsError(m) == [kind |-> "Error", message |-> Some(m)]

versionUrl == [cmd |-> "version"]

\* The Ignite envelope of a version answer: error is null, missing or a
\* text, successStatus is missing or one of Ignite's four codes.
VersionErrors == {JsNull, None, Some(""), Some("err"), Some("Failed to handle request")}
VersionStatuses == {None, Some(0), Some(1), Some(2), Some(3)}
Versions == {JsNull, Some("2.8.1"), Some("2.9.0"), Some("2.10.0")}

VersionData ==
  {None} \cup {Some([error |-> e, successStatus |-> st, response |-> v])
                 : e \in VersionErrors, st \in VersionStatuses, v \in Versions}

\* What fetch() resolves with: the body is res.data.
VersionResults == {[kind |-> "result", data |-> d] : d \in VersionData}

\* What fetch() rejects with when the transport fails.
VersionFailures == {JsError("Network Error"), JsError("Failed to fetch")}

RejectedWith(e) == [kind |-> "rejected", reason |-> e]

\* The test of line 359 with both conditions required.
isConnected_m(data) == data.error = JsNull /\ data.successStatus = Some(0)

isConnected(data) == data.error = JsNull \/ data.successStatus = Some(0)

\* The try block once the request has settled: the value it returns or the
\* value it throws.
tryBlock(settled) ==
  IF settled.kind = "rejected" THEN [kind |-> "thrown", err |-> settled.reason]
  ELSE IF settled.data = None
       THEN [kind |-> "thrown", err |-> JsError("Cannot read property 'error' of undefined")]
  ELSE IF isConnected(settled.data.v)
       THEN [kind |-> "returned", status |-> "success",
             message |-> Some("Successfully connected to Apache Ignite.")]
  ELSE [kind |-> "thrown", err |-> JsString("Failed to connect to Apache Ignite.")]

\* err.message: the property of an Error object; a string has none.
messageOf(err) == IF err.kind = "Error" THEN err.message ELSE None

catchBlock(err) == [kind |-> "returned", status |-> "failure", message |-> messageOf(err)]

testDatasource(settled) ==
  LET t == tryBlock(settled)
  IN IF t.kind = "thrown" THEN catchBlock(t.err) ELSE t

InitTest ==
  /\ request = <<>>
  /\ metadata = <<>>
  /\ Idle

\* testDatasource() up to the await of line 356.
TestDatasource ==
  /\ pc = "start"
  /\ requests' = requests \o <<versionUrl>>
  /\ response' = <<Pending>>
  /\ pc' = "awaitVersion"
  /\ UNCHANGED <<request, filtered, results, frames, outcome, metadata, fields>>

\* The version request is answered: lines 358-372.
VersionResolve(res) ==
  /\ pc = "awaitVersion"
  /\ response' = <<res>>
  /\ outcome' = testDatasource(res)
  /\ pc' = "resolved"
  /\ UNCHANGED <<request, filtered, requests, results, frames, metadata, fields>>

\* The version request fails in transport: the await throws inside the try.
VersionReject(e) ==
  /\ pc = "awaitVersion"
  /\ response' = <<RejectedWith(e)>>
  /\ outcome' = testDatasource(RejectedWith(e))
  /\ pc' = "resolved"
  /\ UNCHANGED <<request, filtered, requests, results, frames, metadata, fields>>

NextTest ==
  \/ TestDatasource
  \/ \E res \in VersionResults : VersionResolve(res)
  \/ \E e \in VersionFailures : VersionReject(e)

SpecTest == InitTest /\ [][NextTest]_vars

\* ----------------------------------------------------------------- properties
\* The four required-field predicates of a query target.
WellFormed(t) ==
  /\ t.cacheName.defined /\ t.cacheName.v # ""
  /\ t.format.defined
  /\ (t.format.v = TIMESERIES => t.timeColumn.defined /\ t.timeColumn.v # "")
  /\ t.query.defined /\ Len(t.query.v) > 0

Kept == {i \in 1..Len(request) : WellFormed(request[i])}

Execs == SelectSeq(requests, LAMBDA u : u.cmd = "qryfldexe")
Sizes == SelectSeq(requests, LAMBDA u : u.cmd = "size")

\* C1: once query() has validated, filtered is the order-preserving
\* sub-sequence of request.targets made of exactly the targets that satisfy
\* the four predicates: the k-th well-formed target is filtered[k].
C1_StableFilter ==
  pc # "start" =>
    /\ Len(filtered) = Cardinality(Kept)
    /\ \A i \in Kept : filtered[Cardinality({j \in Kept : j <= i})] = request[i]

\* C1 witness: an ill-formed time series target was dropped in front of a
\* well-formed one.
C1_Witness ==
  /\ pc = "awaitChecks"
  /\ Len(request) = 2
  /\ request[1].format = Some(TIMESERIES) /\ request[1].timeColumn = None
  /\ request[1].cacheName = Some("person") /\ request[1].query = Some(Sql)
  /\ filtered = <<request[2]>>

\* C2: when no target is well-formed, query() fails with NoValidTargets and
\* not one GET request has been issued.
C2_NoValidTargets ==
  (pc # "start" /\ Kept = {}) =>
    /\ outcome = Thrown(NoValidTargets)
    /\ requests = <<>>

\* C2 witness: a non-empty batch of ill-formed targets was refused.
C2_Witness ==
  /\ Len(request) = MaxTargets
  /\ Kept = {}
  /\ outcome = Thrown(NoValidTargets)

\* C9: getFields returns one descriptor per metadata entry, in order, with
\* the name unchanged and the type of the inference table.
NumberTags ==
  {"java.lang.Byte", "java.lang.Double", "java.lang.Float", "java.lang.Integer",
   "java.lang.Long", "java.lang.Short"}

C9_TypeTable ==
  fields.defined =>
    /\ Len(fields.v) = Len(metadata)
    /\ \A i \in 1..Len(metadata) :
         LET tag == metadata[i].fieldTypeName
         IN /\ fields.v[i].name = metadata[i].fieldName
            /\ fields.v[i].type =
                 IF tag = Some("java.lang.Boolean") THEN "boolean"
                 ELSE IF tag.defined /\ tag.v \in NumberTags THEN "number"
                 ELSE "string"

\* C9 witness: getFields was applied to a short, an unknown tag and a boolean.
C9_Witness ==
  /\ fields.defined
  /\ Len(metadata) = MaxFields
  /\ \E i, j \in 1..Len(metadata) :
       /\ metadata[i].fieldTypeName = Some("java.lang.Short")
       /\ metadata[j].fieldTypeName \in {Some("java.math.BigDecimal"), Some("java.lang.Boolean")}
       /\ metadata[i].fieldName # metadata[j].fieldName

Settled == pc \in {"resolved", "rejected"}
Answered(i) == response[i].kind = "result"
AnsweredBad(i) == Answered(i) /\ (response[i].successStatus # 0 \/ response[i].error # "")
AnyTransportFailure == \E i \in 1..Len(response) : response[i] = Rejected

\* C3 as claimed: once query() has settled, an existence check answered
\* without successStatus = 0 and error = "" means that query() failed with
\* CacheNotFound and issued no execution request.
C3_AsClaimed ==
  (Settled /\ \E i \in 1..Len(response) : AnsweredBad(i)) =>
    /\ outcome = Thrown(CacheNotFound)
    /\ Execs = <<>>

\* C3 amended: if no existence check failed in transport and one was answered
\* without successStatus = 0 and error = "", query() failed with
\* CacheNotFound; if an existence check failed in transport, query() failed
\* with that transport error; in both cases no execution request was issued.
C3_AllOrNothing ==
  Settled =>
    /\ (~AnyTransportFailure /\ \E i \in 1..Len(response) : AnsweredBad(i)) =>
         (outcome = Thrown(CacheNotFound) /\ Execs = <<>>)
    /\ AnyTransportFailure =>
         (outcome = Thrown(TransportError) /\ Execs = <<>>)

\* C3 witness: of two checks one reported its cache and the other reported an
\* error text with status 0, and the batch failed as a whole.
C3_Witness ==
  /\ outcome = Thrown(CacheNotFound)
  /\ Len(response) = 2
  /\ \E i, j \in 1..2 :
       /\ Answered(i) /\ ~AnsweredBad(i)
       /\ Answered(j) /\ response[j].successStatus = 0 /\ response[j].error # ""

\* C4: whenever query() has returned, the execution response of every
\* validated target has been received and translated into its frame.
C4_ReturnsAfterAllFrames ==
  outcome.kind = "returned" =>
    \A i \in 1..Len(filtered) : frames[i].kind = "frame"

\* C5: the data query() returns has one frame per validated target, in
\* target order, each with the refId of its target.
C5_OneFramePerTarget ==
  outcome.kind = "returned" =>
    /\ Len(outcome.data) = Len(filtered)
    /\ \A i \in 1..Len(filtered) :
         /\ outcome.data[i].kind = "frame"
         /\ outcome.data[i].refId = filtered[i].refId

\* C6: the frame built from an answer with successStatus = 0 and error = ""
\* has the N metadata fields, in order and by name, and the M rows, in order
\* and cell by cell, each of arity N.
C6_FrameOfSuccess ==
  \A i \in 1..Len(frames) :
    (results[i].kind = "result" /\ results[i].successStatus = 0 /\ results[i].error = "") =>
      LET md == results[i].response.fieldsMetadata
          items == results[i].response.items
      IN /\ frames[i].kind = "frame"
         /\ frames[i].refId = filtered[i].refId
         /\ Len(frames[i].fields) = Len(md)
         /\ \A j \in 1..Len(md) : frames[i].fields[j].name = md[j].fieldName
         /\ Len(frames[i].rows) = Len(items)
         /\ \A k \in 1..Len(items) :
              /\ Len(frames[i].rows[k]) = Len(md)
              /\ \A j \in 1..Len(md) : frames[i].rows[k][j] = items[k][j]

\* C6 witness: a frame was built from two differently named fields and
\* MaxRows rows.
C6_Witness ==
  \E i \in 1..Len(frames) :
    /\ frames[i].kind = "frame"
    /\ results[i].successStatus = 0 /\ results[i].error = ""
    /\ Len(frames[i].fields) = 2
    /\ frames[i].fields[1].name = "NAME" /\ frames[i].fields[2].name = "ID"
    /\ Len(frames[i].rows) = MaxRows

\* C7: the frame built from an answer with successStatus # 0 or error # ""
\* has no field and no row whatever the payload, and query() has not failed.
C7_FrameOfError ==
  \A i \in 1..Len(frames) :
    (results[i].kind = "result" /\ (results[i].successStatus # 0 \/ results[i].error # "")) =>
      /\ frames[i].kind = "frame"
      /\ frames[i].fields = <<>>
      /\ frames[i].rows = <<>>
      /\ outcome.kind = "returned"

\* C7 witness: an answer with status 0, an error text and a payload of fields
\* and rows was turned into an empty frame.
C7_Witness ==
  \E i \in 1..Len(frames) :
    /\ results[i].kind = "result"
    /\ results[i].successStatus = 0 /\ results[i].error # ""
    /\ Len(results[i].response.fieldsMetadata) = MaxFields
    /\ Len(results[i].response.items) = MaxRows
    /\ frames[i].kind = "frame" /\ frames[i].fields = <<>>

CacheNamesOf(f) == {f[i].cacheName.v : i \in 1..Len(f)}

\* C8 as claimed: query() issues as many size requests as the validated
\* targets name distinct caches.
C8_AsClaimed ==
  pc # "start" => Len(Sizes) = Cardinality(CacheNamesOf(filtered))

\* C8 amended: query() issues exactly one size request per validated target,
\* in target order and for that target's cache, so that two validated targets
\* naming the same cache cause two checks.
C8_OneCheckPerTarget ==
  pc # "start" =>
    /\ Len(Sizes) = Len(filtered)
    /\ \A i \in 1..Len(filtered) : Sizes[i] = sizeUrl(filtered[i].cacheName.v)

\* C8 witness: two validated targets on the same cache, two size requests.
C8_Witness ==
  /\ pc # "start"
  /\ Len(filtered) = 2
  /\ filtered[1].cacheName = filtered[2].cacheName
  /\ Len(Sizes) = 2

\* C10: an execution request that failed in transport has left an empty
\* frame for its target, and query() has returned.
C10_TransportFailureIsEmptyFrame ==
  \A i \in 1..Len(frames) :
    results[i] = Rejected =>
      /\ frames[i].kind = "frame"
      /\ frames[i].fields = <<>>
      /\ frames[i].rows = <<>>
      /\ outcome.kind = "returned"

\* C11: the existence checks are a barrier.  An execution request has been
\* issued only if every existence check of the batch has been answered, and
\* none has been issued if an existence check failed in transport.
C11_Barrier ==
  /\ Execs # <<>> => \A i \in 1..Len(response) : Answered(i)
  /\ AnyTransportFailure => Execs = <<>>

\* C11 witness: the executions of a batch of two were issued behind two
\* answered checks.
C11_Witness ==
  /\ Len(response) = 2
  /\ Len(Execs) = 2
  /\ \A i \in 1..2 : Answered(i)

ProbeDone == pc = "resolved" /\ Len(response) = 1 /\ requests = <<versionUrl>>

\* C12: testDatasource always returns a value, whose status is 'success'
\* exactly when the version answer has error = null or successStatus = 0, and
\* 'failure' otherwise, a transport failure included.
C12_ProbeStatus ==
  pc \notin {"start", "awaitVersion"} =>
    /\ pc = "resolved"
    /\ outcome.kind = "returned"
    /\ outcome.status \in {"success", "failure"}
    /\ outcome.status = "success" <=>
         /\ response[1].kind = "result"
         /\ response[1].data.defined
         /\ \/ response[1].data.v.error = JsNull
            \/ response[1].data.v.successStatus = Some(0)

\* C12 witness: the version request failed in transport and testDatasource
\* returned 'failure'.
C12_Witness ==
  /\ ProbeDone
  /\ response[1].kind = "rejected"
  /\ outcome.kind = "returned" /\ outcome.status = "failure"

\* C13: a 'failure' returned by testDatasource carries a message text.
C13_FailureMessage ==
  (ProbeDone /\ outcome.status = "failure") => outcome.message.defined

Built(i) == frames[i].kind = "frame"
Anonymous(frame) == [frame EXCEPT !.refId = ""]

\* C14: the executions are independent under every order of completion.
\* Two targets answered with the same response have the same frame but for
\* the refId, whatever their siblings received; and once the executions are
\* issued, no answer or failure of one target changes the response or the
\* frame a sibling already has, nor what query() settled with.
C14_Independent ==
  /\ [](\A i, j \in 1..Len(frames) :
          (Built(i) /\ Built(j) /\ results[i] = results[j]) =>
            Anonymous(frames[i]) = Anonymous(frames[j]))
  /\ [][\A i \in 1..Len(frames) :
          /\ frames[i] # Pending => (frames'[i] = frames[i] /\ results'[i] = results[i])
          /\ outcome' = outcome
          /\ pc' = pc]_vars

\* C14 witness: of two executions one was answered with rows and the other
\* with an error, and both frames stand.
C14_Witness ==
  /\ Len(frames) = 2
  /\ \E i, j \in 1..2 :
       /\ Built(i) /\ Len(frames[i].rows) = MaxRows
       /\ Built(j) /\ results[j].successStatus # 0 /\ frames[j].fields = <<>>
  /\ outcome.kind = "returned"

\* The percent-encoding in which the first space is a plus sign and every
\* later space is %20.
RECURSIVE FirstSpacePlus(_, _)
FirstSpacePlus(s, seen) ==
  IF s = <<>> THEN <<>>
  ELSE LET c == Head(s)
           e == IF c = " " THEN (IF seen THEN <<"%", "2", "0">> ELSE <<"+">>)
                ELSE IF c = "+" THEN <<"%", "2", "B">>
                ELSE IF c = "%" THEN <<"%", "2", "5">>
                ELSE <<c>>
       IN e \o FirstSpacePlus(Tail(s), seen \/ c = " ")

\* The endpoint's reading of a query parameter: a plus sign is a space, a
\* percent sign starts the escape of one byte.
Unescape(h, l) ==
  IF h = "2" /\ l = "0" THEN " "
  ELSE IF h = "2" /\ l = "B" THEN "+"
  ELSE IF h = "2" /\ l = "5" THEN "%"
  ELSE "?"

RECURSIVE EndpointDecode(_)
EndpointDecode(s) ==
  IF s = <<>> THEN <<>>
  ELSE IF Head(s) = "+" THEN <<" ">> \o EndpointDecode(Tail(s))
  ELSE IF Head(s) = "%"
       THEN IF Len(s) < 3 THEN <<"?">>
            ELSE <<Unescape(s[2], s[3])>> \o EndpointDecode(SubSeq(s, 4, Len(s)))
  ELSE <<Head(s)>> \o EndpointDecode(Tail(s))

C16_OneExecutionPerTarget ==
  /\ pc = "resolved" =>
       /\ Len(Execs) = Cardinality(Kept)
       /\ \A i \in 1..Len(filtered) :
            /\ Execs[i].cacheName = filtered[i].cacheName.v
            /\ Execs[i].pageSize = 1024
  /\ pc # "resolved" => Execs = <<>>

\* C16 witness: of two targets one was dropped, and the execution of the
\* other failed in transport without being issued again.
C16_Witness ==
  /\ pc = "resolved"
  /\ Len(request) = 2 /\ Len(filtered) = 1
  /\ results = <<Rejected>>
  /\ Len(Execs) = 1

\* C17: no step of query() changes request.targets, neither the sequence nor
\* a field of a target in it, whether the call succeeds or fails with
\* NoValidTargets or CacheNotFound.
C17_RequestUnchanged == [][request' = request]_vars

\* C17 witness: query() dropped a target from its copy, failed with
\* CacheNotFound, and the caller's request still holds both targets.
C17_Witness ==
  /\ outcome = Thrown(CacheNotFound)
  /\ Len(request) = 2
  /\ Len(filtered) = 1
  /\ ~WellFormed(request[1])

====
